---------------------------- MODULE Spec2Model ----------------------------
(***************************************************************************)
(* Model of three lint rules of deno_lint and of the visitor pass that     *)
(* drives them:                                                            *)
(*   src/src/rules/no_cond_assign.rs   NoCondAssign  / NoCondAssignVisitor *)
(*   src/src/rules/no_fallthrough.rs   NoFallthrough / NoFallthroughVisitor*)
(*   src/src/rules/no_unreachable.rs   NoUnreachable / NoUnreachableVisitor*)
(*                                                                         *)
(* A pass is lint_module: it builds the rule's visitor and calls           *)
(* visitor.visit_module(&module, &module).  swc_ecma_visit's Visit trait   *)
(* gives every visit_* method a default body that dispatches to the        *)
(* node's children; a method a visitor overrides replaces that body, so    *)
(* the children of the node are dispatched only if the override does it.   *)
(* None of the three overrides (visit_stmt, visit_switch_stmt,             *)
(* visit_block_stmt) calls back into the traversal.                        *)
(*                                                                         *)
(* The syntax tree is a value: a statement is a record, a Span is the      *)
(* position of the node in the tree (the path of child indices from the    *)
(* module), so two different nodes never share a Span.                     *)
(***************************************************************************)
EXTENDS Integers, Sequences, FiniteSets

VARIABLES
    rule,         \* the LintRule whose lint_module runs
    module,       \* Module.body: the top-level statements
    todo,         \* the traversal: dispatches still to make, next first
    diagnostics,  \* Context's diagnostics, in insertion order
    visited,      \* spans of the nodes an overridden visit_* method has run on
    pc            \* "start" | "visit" | "done"

vars == <<rule, module, todo, diagnostics, visited, pc>>

----------------------------------------------------------------------------
(* Bounds of the checked inputs *)

MaxParen == 2   \* parenthesis layers around a test expression
MaxTop   == 2   \* top-level statements of a module analysed by NoCondAssign
MaxCases == 3   \* cases of a switch
MaxCons  == 2   \* statements in a case body
MaxStmts == 3   \* statements in a block's direct statement list

----------------------------------------------------------------------------
(* The syntax tree (swc_ecma_ast) *)

\* Option<T>: <<>> is None, <<x>> is Some(x).
None == <<>>
Some(x) == <<x>>

\* Expr: Assign, Paren(expr) or any other expression.
Expr(kind, inner) == [kind |-> kind, expr |-> inner]
AssignExpr == Expr("Assign", None)
OtherExpr == Expr("Other", None)
ParenExpr(e) == Expr("Paren", Some(e))

\* Stmt.  test/init/update are Option<Expr>; kids are the statements the
\* node owns directly (Block.stmts, the body of a loop, cons and alt of an If,
\* the body block of a function declaration); cases are SwitchStmt.cases.
Stmt(kind, init, test, update, kids, cases) ==
    [kind |-> kind, init |-> init, test |-> test, update |-> update,
     kids |-> kids, cases |-> cases]

Leaf(kind) == Stmt(kind, None, None, None, <<>>, <<>>)
ExprStmt == Leaf("Expr")
VarDecl == Leaf("Decl")
BlockStmt(stmts) == Stmt("Block", None, None, None, stmts, <<>>)
FnDecl(stmts) == Stmt("Decl", None, None, None, <<BlockStmt(stmts)>>, <<>>)
IfStmt(test, cons) == Stmt("If", None, Some(test), None, <<cons>>, <<>>)
IfElseStmt(test, cons, alt) ==
    Stmt("If", None, Some(test), None, <<cons, alt>>, <<>>)
WhileStmt(test, body) == Stmt("While", None, Some(test), None, <<body>>, <<>>)
DoWhileStmt(test, body) ==
    Stmt("DoWhile", None, Some(test), None, <<body>>, <<>>)
ForStmt(init, test, update, body) ==
    Stmt("For", init, test, update, <<body>>, <<>>)
\* SwitchCase: cons is the case body; comment says that a "falls through"
\* comment trails the body, immediately before the next case.
SwitchCase(cons, comment) == [cons |-> cons, comment |-> comment]
SwitchStmt(cases) == Stmt("Switch", None, None, None, <<>>, cases)

\* Spans.  The test of a statement is child 0, the init and update clauses
\* of a For are children -1 and -2, kid i is child i, case k of a
\* switch is child k and statement j of its body is child j of the case; the
\* expression inside a Paren is child 0.
TestSpan(span) == Append(span, 0)
InitSpan(span) == Append(span, -1)
UpdateSpan(span) == Append(span, -2)
KidSpan(span, i) == Append(span, i)
InnerSpan(span) == Append(span, 0)

Diagnostic(span, code, message) ==
    [span |-> span, code |-> code, message |-> message]

\* A dispatch of the traversal: a statement and its span.
Dispatch(node, span) == [node |-> node, span |-> span]

----------------------------------------------------------------------------
(* no_cond_assign.rs *)

add_diagnostic_cond_assign(span) ==
    <<Diagnostic(span, "noCondAssign",
        "Expected a conditional expression and instead saw an assignment")>>

RECURSIVE check_paren_expr(_, _)
check_paren_expr(paren_expr, span) ==
    LET inner == paren_expr.expr[1]
    IN  CASE inner.kind = "Assign" ->
               add_diagnostic_cond_assign(InnerSpan(span))
          [] inner.kind = "Paren" -> check_paren_expr(inner, InnerSpan(span))
          [] OTHER -> <<>>

\* check_test_expr without its Assign arm.
check_test_expr_no_assign_arm(expr, span) ==
    CASE expr.kind = "Paren" -> check_paren_expr(expr, span)
      [] OTHER -> <<>>

check_test_expr(expr, span) ==
    CASE expr.kind = "Assign" -> add_diagnostic_cond_assign(span)
      [] expr.kind = "Paren" -> check_paren_expr(expr, span)
      [] OTHER -> <<>>

\* visit_stmt whose For arm reads for_stmt.update where it should read
\* for_stmt.test.
visit_stmt_for_update(stmt, span) ==
    CASE stmt.kind \in {"If", "While", "DoWhile"} ->
               check_test_expr(stmt.test[1], TestSpan(span))
      [] stmt.kind = "For" ->
               IF stmt.update # None
               THEN check_test_expr(stmt.update[1], UpdateSpan(span))
               ELSE <<>>
      [] OTHER -> <<>>

\* NoCondAssignVisitor::visit_stmt: the diagnostics one call adds.
visit_stmt_cond_assign(stmt, span) ==
    CASE stmt.kind \in {"If", "While", "DoWhile"} ->
               check_test_expr(stmt.test[1], TestSpan(span))
      [] stmt.kind = "For" ->
               IF stmt.test # None
               THEN check_test_expr(stmt.test[1], TestSpan(span))
               ELSE <<>>
      [] OTHER -> <<>>

----------------------------------------------------------------------------
(* no_fallthrough.rs and no_unreachable.rs *)

\* is_control_flow_stmt of no_fallthrough.rs.
is_control_flow_stmt(stmt) ==
    stmt.kind \in {"Return", "Break", "Continue", "Throw"}

\* is_control_flow_stmt of no_unreachable.rs.
is_control_flow_stmt_unreachable(stmt) ==
    stmt.kind \in {"Return", "Break", "Continue", "Throw"}

\* visit_switch_stmt without the case.cons.is_empty() test.
visit_switch_stmt_no_empty_test(switch, span) ==
    LET cases == switch.cases
    IN  IF cases = <<>> THEN <<>>
        ELSE IF \E j \in 1..Len(cases[1].cons) :
                   is_control_flow_stmt(cases[1].cons[j])
        THEN <<>>
        ELSE IF Len(cases) >= 2
        THEN <<Diagnostic(KidSpan(span, 2), "noFallthrough",
                 "Expected break statement before case")>>
        ELSE <<>>

\* NoFallthroughVisitor::visit_switch_stmt: the diagnostics one call adds.
\* iter.next() is taken once, in the head of the for loop: the loop runs over
\* that Option, so its body runs for the first case alone, and iter.peek()
\* is the second case.  The comments of the source file are never consulted.
visit_switch_stmt(switch, span) ==
    LET cases == switch.cases
        first == IF cases = <<>> THEN None ELSE Some(1)
        peek == IF Len(cases) >= 2 THEN Some(2) ELSE None
    IN  IF first = None THEN <<>>
        ELSE LET case == cases[first[1]]
             IN  IF case.cons = <<>> THEN <<>>
                 ELSE IF \E j \in 1..Len(case.cons) :
                            is_control_flow_stmt(case.cons[j])
                 THEN <<>>
                 ELSE IF peek # None
                 THEN <<Diagnostic(KidSpan(span, peek[1]), "noFallthrough",
                          "Expected break statement before case")>>
                 ELSE <<>>

add_diagnostic_unreachable(span) ==
    Diagnostic(span, "noUnreachable", "Unreachable code")

\* The statements of a list with their spans.
Spanned(stmts, span) ==
    [i \in 1..Len(stmts) |-> Dispatch(stmts[i], KidSpan(span, i))]

\* get_unreachable_code that splits at the last control-flow statement.
get_unreachable_code_last(stmts, span) ==
    LET found == {i \in 1..Len(stmts) :
                      is_control_flow_stmt_unreachable(stmts[i])}
    IN  IF found # {}
        THEN LET idx == CHOOSE i \in found : \A j \in found : i >= j
             IN  SubSeq(Spanned(stmts, span), idx + 1, Len(stmts))
        ELSE <<>>

\* get_unreachable_code without the second split: the control-flow
\* statement itself is part of the result.
get_unreachable_code_keeps_terminator(stmts, span) ==
    LET found == {i \in 1..Len(stmts) :
                      is_control_flow_stmt_unreachable(stmts[i])}
    IN  IF found # {}
        THEN LET idx == CHOOSE i \in found : \A j \in found : i <= j
             IN  SubSeq(Spanned(stmts, span), idx, Len(stmts))
        ELSE <<>>

\* NoUnreachableVisitor::get_unreachable_code: what follows the first
\* control-flow statement of the list.
get_unreachable_code(stmts, span) ==
    LET found == {i \in 1..Len(stmts) :
                      is_control_flow_stmt_unreachable(stmts[i])}
    IN  IF found # {}
        THEN LET idx == CHOOSE i \in found : \A j \in found : i <= j
             IN  SubSeq(Spanned(stmts, span), idx + 1, Len(stmts))
        ELSE <<>>

IsNotDecl(d) == d.node.kind # "Decl"

\* NoUnreachableVisitor::visit_block_stmt: the diagnostics one call adds.
visit_block_stmt(block_stmt, span) ==
    LET flagged == SelectSeq(get_unreachable_code(block_stmt.kids, span),
                             IsNotDecl)
    IN  [i \in 1..Len(flagged) |-> add_diagnostic_unreachable(flagged[i].span)]

----------------------------------------------------------------------------
(* The traversal: Visit's default methods *)

RECURSIVE CaseChildren(_, _, _)
CaseChildren(cases, span, k) ==
    IF k > Len(cases) THEN <<>>
    ELSE Spanned(cases[k].cons, KidSpan(span, k))
         \o CaseChildren(cases, span, k + 1)

\* The statements a default visit_stmt dispatches to, in source order.
Children(node, span) ==
    IF node.kind = "Switch" THEN CaseChildren(node.cases, span, 1)
    ELSE Spanned(node.kids, span)

\* The statements the rule inspects.
Inspects(r, node) ==
    CASE r = "NoCondAssign" -> node.kind \in {"If", "While", "DoWhile", "For"}
      [] r = "NoFallthrough" -> node.kind = "Switch"
      [] r = "NoUnreachable" -> node.kind = "Block"

\* The statements for which the rule's visitor overrides the dispatch.
Overrides(r, node) ==
    CASE r = "NoCondAssign" -> TRUE
      [] r = "NoFallthrough" -> node.kind = "Switch"
      [] r = "NoUnreachable" -> node.kind = "Block"

----------------------------------------------------------------------------
(* The analysed modules *)

SeqsUpTo(S, n) == UNION {[1..k -> S] : k \in 0..n}

RECURSIVE ExprsOfDepth(_)
ExprsOfDepth(d) ==
    IF d = 0 THEN {AssignExpr, OtherExpr}
    ELSE ExprsOfDepth(d - 1) \cup {ParenExpr(e) : e \in ExprsOfDepth(d - 1)}

Tests == ExprsOfDepth(MaxParen)

EmptyBlock == BlockStmt(<<>>)

\* Conditionals and loops whose test is a bare assignment.
NestedCond ==
    {IfStmt(AssignExpr, EmptyBlock), WhileStmt(AssignExpr, EmptyBlock),
     DoWhileStmt(AssignExpr, EmptyBlock),
     ForStmt(None, Some(AssignExpr), None, EmptyBlock)}

Bodies == {EmptyBlock, IfStmt(AssignExpr, EmptyBlock)}

\* The init and update clauses of a For: both absent, or both assignments.
Clauses == {None, Some(AssignExpr)}

\* The top-level statements of the modules NoCondAssign is run on.
CondAssignStmts ==
    {ExprStmt}
    \cup {IfStmt(t, b) : t \in Tests, b \in Bodies}
    \cup {IfElseStmt(OtherExpr, EmptyBlock, b) :
            b \in {WhileStmt(AssignExpr, EmptyBlock),
                   ForStmt(None, Some(AssignExpr), None, EmptyBlock)}}
    \cup {WhileStmt(t, EmptyBlock) : t \in Tests}
    \cup {DoWhileStmt(t, EmptyBlock) : t \in Tests}
    \cup {ForStmt(c, t, c, EmptyBlock) :
            c \in Clauses, t \in {None} \cup {Some(e) : e \in Tests}}
    \cup {BlockStmt(<<s>>) : s \in NestedCond}
    \cup {FnDecl(<<s>>) :
            s \in {IfStmt(AssignExpr, EmptyBlock),
                   DoWhileStmt(AssignExpr, EmptyBlock)}}

\* Where a statement list stands decides the terminators it may hold: a
\* return needs a function, a continue a loop, a break a loop or a switch.
TerminatorsIn(ctx) ==
    CASE ctx = "Function" -> {"Return", "Throw"}
      [] ctx = "Loop" -> {"Break", "Continue", "Throw"}
      [] ctx = "Case" -> {"Break", "Throw"}
      [] OTHER -> {"Throw"}

Contexts == {"Module", "Function", "Loop", "Case"}

\* Case bodies: expression statements and one kind of terminator.
ConsLists(t) == SeqsUpTo({ExprStmt, Leaf(t)}, MaxCons)

\* A switch of n cases with the given bodies; a "falls through" comment
\* trails case c (none when c = 0).
SwitchOf(conses, c) ==
    SwitchStmt([k \in 1..Len(conses) |-> SwitchCase(conses[k], k = c)])

\* A switch at the top level, in a function body or in a loop body.
SwitchIn(ctx, sw) ==
    CASE ctx = "Function" -> FnDecl(<<sw>>)
      [] ctx = "Loop" -> WhileStmt(OtherExpr, BlockStmt(<<sw>>))
      [] OTHER -> sw

\* The terminators of the case bodies of a switch at the top level, and of
\* one inside a function or a loop.
TopTerminators == {"Break", "Throw"}

InnerContexts == {<<"Function", "Return">>, <<"Loop", "Continue">>}

\* Switches of two cases, without comments.
SmallSwitches ==
    {SwitchOf(<<a, <<ExprStmt>>>>, 0) :
        a \in {<<>>, <<ExprStmt>>, <<Leaf("Break")>>}}

\* A switch in a block, or in a case of another switch.
Nested(sw) ==
    {BlockStmt(<<sw>>),
     SwitchOf(<<<<sw>>, <<ExprStmt>>>>, 0),
     SwitchOf(<<<<>>, <<sw>>>>, 0)}

\* Statement lists of a block: leaves and nested blocks.
LeavesIn(ctx) == {ExprStmt, VarDecl} \cup {Leaf(t) : t \in TerminatorsIn(ctx)}

InnerBlocks == {BlockStmt(<<Leaf("Throw"), ExprStmt>>), BlockStmt(<<ExprStmt>>)}

\* A block at the top level, as a function body, as a loop body or in a
\* case of a switch.
BlockIn(ctx, l) ==
    CASE ctx = "Function" -> FnDecl(l)
      [] ctx = "Loop" -> WhileStmt(OtherExpr, BlockStmt(l))
      [] ctx = "Case" -> SwitchOf(<<<<BlockStmt(l)>>>>, 0)
      [] OTHER -> BlockStmt(l)

----------------------------------------------------------------------------
(* The pass *)

\* NoCondAssign is run on modules of up to MaxTop statements.
CondAssignModule ==
    \E n \in 1..MaxTop : module \in [1..n -> CondAssignStmts]

\* NoFallthrough is run on modules of one statement: a switch of up to
\* MaxCases cases, with or without a "falls through" comment after its first
\* case; a switch of two cases in a function or a loop; or a small switch
\* in a block or in a case of another switch.
FallthroughModule ==
    \/ \E t \in TopTerminators :
          \E n \in 0..MaxCases :
             \E conses \in [1..n -> ConsLists(t)] :
                \E c \in 0..(IF n < 2 THEN 0 ELSE 1) :
                   module = <<SwitchOf(conses, c)>>
    \/ \E p \in InnerContexts :
          \E conses \in [1..2 -> ConsLists(p[2])] :
             module = <<SwitchIn(p[1], SwitchOf(conses, 0))>>
    \/ \E sw \in SmallSwitches : \E w \in Nested(sw) : module = <<w>>

\* NoUnreachable is run on modules of one block, or of leaves alone.
UnreachableModule ==
    \E n \in 0..MaxStmts :
       \/ \E ctx \in Contexts :
             \E l \in [1..n -> LeavesIn(ctx) \cup InnerBlocks] :
                module = <<BlockIn(ctx, l)>>
       \/ module \in [1..n -> LeavesIn("Module")]

Init ==
    /\ \/ rule = "NoCondAssign" /\ CondAssignModule
       \/ rule = "NoFallthrough" /\ FallthroughModule
       \/ rule = "NoUnreachable" /\ UnreachableModule
    /\ todo = <<>>
    /\ diagnostics = <<>>
    /\ visited = <<>>
    /\ pc = "start"

\* lint_module: visitor.visit_module(&module, &module).  No visitor overrides
\* visit_module or visit_module_item: each top-level statement is dispatched
\* to visit_stmt.
LintModule ==
    /\ pc = "start"
    /\ todo' = Spanned(module, <<>>)
    /\ pc' = "visit"
    /\ UNCHANGED <<rule, module, diagnostics, visited>>

\* NoCondAssignVisitor::visit_stmt on the next statement.
VisitStmt ==
    /\ pc = "visit" /\ todo # <<>>
    /\ rule = "NoCondAssign"
    /\ diagnostics' =
         diagnostics \o visit_stmt_cond_assign(Head(todo).node, Head(todo).span)
    /\ visited' = Append(visited, Head(todo).span)
    /\ todo' = Tail(todo)
    /\ UNCHANGED <<rule, module, pc>>

\* NoFallthroughVisitor::visit_switch_stmt on the next statement, a switch.
VisitSwitchStmt ==
    /\ pc = "visit" /\ todo # <<>>
    /\ rule = "NoFallthrough" /\ Overrides(rule, Head(todo).node)
    /\ diagnostics' =
         diagnostics \o visit_switch_stmt(Head(todo).node, Head(todo).span)
    /\ visited' = Append(visited, Head(todo).span)
    /\ todo' = Tail(todo)
    /\ UNCHANGED <<rule, module, pc>>

\* NoUnreachableVisitor::visit_block_stmt on the next statement, a block.
VisitBlockStmt ==
    /\ pc = "visit" /\ todo # <<>>
    /\ rule = "NoUnreachable" /\ Overrides(rule, Head(todo).node)
    /\ diagnostics' =
         diagnostics \o visit_block_stmt(Head(todo).node, Head(todo).span)
    /\ visited' = Append(visited, Head(todo).span)
    /\ todo' = Tail(todo)
    /\ UNCHANGED <<rule, module, pc>>

\* A statement the visitor does not override: Visit's default method
\* dispatches to its children, in order, before the statements that follow.
VisitDefault ==
    /\ pc = "visit" /\ todo # <<>>
    /\ ~Overrides(rule, Head(todo).node)
    /\ todo' = Children(Head(todo).node, Head(todo).span) \o Tail(todo)
    /\ UNCHANGED <<rule, module, diagnostics, visited, pc>>

\* visit_module returns: the pass is over.
Finish ==
    /\ pc = "visit" /\ todo = <<>>
    /\ pc' = "done"
    /\ UNCHANGED <<rule, module, todo, diagnostics, visited>>

Next ==
    \/ LintModule
    \/ VisitStmt
    \/ VisitSwitchStmt
    \/ VisitBlockStmt
    \/ VisitDefault
    \/ Finish

Spec == Init /\ [][Next]_vars

----------------------------------------------------------------------------
(* Reading the tree and the diagnostics *)

Range(f) == {f[i] : i \in DOMAIN f}

RECURSIVE Descendants(_)
Descendants(d) ==
    {d} \cup UNION {Descendants(c) : c \in Range(Children(d.node, d.span))}

\* Every statement of the module, at every depth, with its span.
Nodes == UNION {Descendants(d) : d \in Range(Spanned(module, <<>>))}

\* The statements an overridden visit_* method has run on.
Handled == {d \in Nodes : d.span \in Range(visited)}

IsPrefix(p, s) == Len(p) <= Len(s) /\ SubSeq(s, 1, Len(p)) = p

\* The diagnostics at a span, and those at a span or below it.
DiagsAt(span, code) ==
    {i \in 1..Len(diagnostics) :
        diagnostics[i].span = span /\ diagnostics[i].code = code}

DiagsWithin(span) ==
    {i \in 1..Len(diagnostics) : IsPrefix(span, diagnostics[i].span)}

Times(span) == Cardinality({i \in 1..Len(visited) : visited[i] = span})

RECURSIVE Innermost(_)
Innermost(e) == IF e.kind = "Paren" THEN Innermost(e.expr[1]) ELSE e

RECURSIVE InnermostSpan(_, _)
InnermostSpan(e, span) ==
    IF e.kind = "Paren" THEN InnermostSpan(e.expr[1], InnerSpan(span))
    ELSE span

HasTest(stmt) ==
    stmt.kind \in {"If", "While", "DoWhile", "For"} /\ stmt.test # None

\* A case that falls through by the rule's contract: it has a body and no
\* Return/Break/Continue/Throw at the top level of the body.
FallsThrough(case) ==
    /\ case.cons # <<>>
    /\ \A j \in 1..Len(case.cons) :
          case.cons[j].kind \notin {"Return", "Break", "Continue", "Throw"}

\* The indices of the terminators of a statement list.
TerminatorsOf(stmts) ==
    {i \in 1..Len(stmts) :
        stmts[i].kind \in {"Return", "Break", "Continue", "Throw"}}

FirstTerminator(stmts) ==
    CHOOSE i \in TerminatorsOf(stmts) : \A j \in TerminatorsOf(stmts) : i <= j

Done(r) == pc = "done" /\ rule = r

----------------------------------------------------------------------------
(* The claims *)

\* C1: in every switch visit_switch_stmt has run on, for every case k, a
\* noFallthrough diagnostic at the span of case k+1 exists if and only if
\* case k is not the last case, has a body and has no terminator at the top
\* level of the body.  Stated for switches without comments.
C1_FallthroughEveryCase ==
    Done("NoFallthrough") =>
      \A d \in Handled :
         (\A k \in 1..Len(d.node.cases) : ~d.node.cases[k].comment) =>
            \A k \in 1..Len(d.node.cases) :
               DiagsAt(KidSpan(d.span, k + 1), "noFallthrough") # {}
                 <=> (k < Len(d.node.cases) /\ FallsThrough(d.node.cases[k]))

\* C2: a statement visit_stmt has run on whose test is an assignment in one
\* or more layers of parentheses has no diagnostic in its test.
C2_ParenthesizedAssignExempt ==
    rule = "NoCondAssign" =>
      \A d \in Handled :
         (/\ HasTest(d.node)
          /\ d.node.test[1].kind = "Paren"
          /\ Innermost(d.node.test[1]).kind = "Assign")
           => DiagsWithin(TestSpan(d.span)) = {}

C5_ModuleTopLevel ==
    (/\ Done("NoUnreachable")
     /\ TerminatorsOf(module) # {}
     /\ \E j \in (FirstTerminator(module) + 1)..Len(module) :
           module[j].kind # "Decl")
      => diagnostics # <<>>

\* C6: in a switch visit_switch_stmt has run on, a case that falls through
\* and whose body is trailed by a "falls through" comment leaves no
\* noFallthrough diagnostic at the case after it.
C6_CommentSuppresses ==
    Done("NoFallthrough") =>
      \A d \in Handled :
         \A k \in 1..(Len(d.node.cases) - 1) :
            (FallsThrough(d.node.cases[k]) /\ d.node.cases[k].comment)
              => DiagsAt(KidSpan(d.span, k + 1), "noFallthrough") = {}

\* C7: when the pass is over, every statement of the kind the rule inspects,
\* at every depth of the tree, has been visited by the rule's method exactly
\* once.
C7_EveryNodeVisitedOnce ==
    pc = "done" =>
      \A d \in Nodes : Inspects(rule, d.node) => Times(d.span) = 1

\* C8: in every switch of the module, a case with an empty body leaves no
\* noFallthrough diagnostic at the case after it, and every diagnostic is at
\* a case that follows a case with a body: none is due to the last case, and
\* a switch of zero or one case has none.
C8_ExemptCasesNeverBlamed ==
    rule = "NoFallthrough" =>
      /\ \A d \in Nodes :
            d.node.kind = "Switch" =>
               \A k \in 1..Len(d.node.cases) :
                  (d.node.cases[k].cons = <<>> \/ k = Len(d.node.cases))
                    => DiagsAt(KidSpan(d.span, k + 1), "noFallthrough") = {}
      /\ \A i \in 1..Len(diagnostics) :
            \E d \in Nodes :
               /\ d.node.kind = "Switch"
               /\ \E k \in 1..(Len(d.node.cases) - 1) :
                     /\ diagnostics[i].span = KidSpan(d.span, k + 1)
                     /\ d.node.cases[k].cons # <<>>

C8_Witness ==
    /\ Done("NoFallthrough")
    /\ \E d \in Handled :
          /\ Len(d.node.cases) = 3
          /\ d.node.cases[1].cons = <<>>
          /\ FallsThrough(d.node.cases[3])
    /\ diagnostics = <<>>

C10_NoFalsePositives ==
    rule = "NoUnreachable" =>
      \A d \in Nodes :
         d.node.kind = "Block" =>
            \A j \in 1..Len(d.node.kids) :
               (\/ TerminatorsOf(d.node.kids) = {}
                \/ j <= FirstTerminator(d.node.kids))
                 => DiagsAt(KidSpan(d.span, j), "noUnreachable") = {}

C10_Witness ==
    /\ Done("NoUnreachable")
    /\ \E d \in Handled :
          /\ Len(d.node.kids) = 3
          /\ TerminatorsOf(d.node.kids) = {3}
          /\ d.node.kids[3].kind = "Continue"
    /\ diagnostics = <<>>

=============================================================================
